---- MODULE Spec2Model ----
(***************************************************************************)
(* spectra-cache: a Bloom filter (BloomFilter) and the two TTL caches that *)
(* own one each (DistributedHashTable over a HashMap, BTreeCache over a    *)
(* BTreeMap), as written in src/src/lib.rs.                                *)
(*                                                                         *)
(* Time is the monotonic clock read by Instant::now(), in whole ticks.     *)
(* A u64 is a little-endian sequence of 8 bytes so that wrapping_mul keeps *)
(* its 64-bit width.  An f64 is a fixed-point number with FixedOne units   *)
(* per 1.0, plus the special values -inf and NaN where ln produces them.   *)
(* Vec<bool> is the pair (num_bits, set_bits): its length and the set of   *)
(* indexes that hold true.                                                 *)
(***************************************************************************)
EXTENDS Integers, Sequences, FiniteSets, TLC

\* ----------------------------------------------------------------- bounds
MaxTime == 2
MaxTtl == 1
MaxInserts == 2
MaxCapacity == 2

Keys == {"a", "b"}
Values == {"v1", "v2"}
\* the ttl arguments: a zero Duration and the longest one
Ttls == {0, MaxTtl}
Capacities == 0..MaxCapacity
\* false_positive_rate in thousandths: -0.5, 0.0, 0.01, 0.5, 0.9, 1.0, 1.5
Rates == {-500, 0, 10, 500, 900, 1000, 1500}

None == [some |-> FALSE]
Some(x) == [some |-> TRUE, v |-> x]

\* the record of a call that takes no argument and returns nothing
Call(name) == [op |-> name]

\* ------------------------------------------------------------ u64 words
LimbBase == 256
NumLimbs == 8

\* 0x517cc1b727220a95, least significant byte first
HashMultiplier == <<149, 10, 34, 39, 183, 193, 124, 81>>

U64One == <<1, 0, 0, 0, 0, 0, 0, 0>>
U64Max == <<255, 255, 255, 255, 255, 255, 255, 255>>
\* the u64 values DefaultHasher::finish() is taken to return
HashValues == {U64One, U64Max}

RECURSIVE ColumnSum(_, _, _, _)
\* sum over j in 1..n of a[j] * b[n + 1 - j], the n-th column of a * b
ColumnSum(a, b, n, j) ==
    IF j > n THEN 0 ELSE a[j] * b[n + 1 - j] + ColumnSum(a, b, n, j + 1)

RECURSIVE MulLimbs(_, _, _, _)
MulLimbs(a, b, n, carry) ==
    IF n > NumLimbs THEN <<>>
    ELSE LET s == ColumnSum(a, b, n, 1) + carry
         IN  <<s % LimbBase>> \o MulLimbs(a, b, n + 1, s \div LimbBase)

\* u64::wrapping_mul: the product modulo 2^64
WrappingMul(a, b) == MulLimbs(a, b, 1, 0)

RECURSIVE ModLimbs(_, _, _)
\* the value of limbs n..NumLimbs of a, modulo m (m > 0)
ModLimbs(a, n, m) ==
    IF n > NumLimbs THEN 0
    ELSE (ModLimbs(a, n + 1, m) * LimbBase + a[n]) % m

\* `x as usize % len` on a 64-bit target
U64Mod(a, m) == ModLimbs(a, 1, m)

\* ------------------------------------------------------------ f64 sizing
FixedOne == 32768
\* std::f64::consts::LN_2 = 0.693147...
LN_2 == 22713

\* f64::ln of a rate given in thousandths
Ln(rate) ==
    CASE rate < 0 -> [kind |-> "nan", v |-> 0]
      [] rate = 0 -> [kind |-> "-inf", v |-> 0]
      [] rate = 10 -> [kind |-> "num", v |-> -150902]
      [] rate = 500 -> [kind |-> "num", v |-> -22713]
      [] rate = 900 -> [kind |-> "num", v |-> -3452]
      [] rate = 1000 -> [kind |-> "num", v |-> 0]
      [] rate = 1500 -> [kind |-> "num", v |-> 13286]

\* f64::ceil of a / b for a >= 0, b > 0
CeilDiv(a, b) == (a + b - 1) \div b
\* f64::round (half away from zero) of a / b for a >= 0, b > 0
RoundDiv(a, b) == (2 * a + b) \div (2 * b)

\* BloomFilter::optimal_num_bits; `as usize` saturates: NaN and negatives
\* give 0, +inf gives usize::MAX (saturated)
optimal_num_bits(capacity, false_positive_rate) ==
    LET ln == Ln(false_positive_rate)
        ln2_squared == (LN_2 * LN_2) \div FixedOne
    IN  CASE ln.kind = "nan" -> [saturated |-> FALSE, n |-> 0]
          [] ln.kind = "-inf" ->
               IF capacity = 0 THEN [saturated |-> FALSE, n |-> 0]
               ELSE [saturated |-> TRUE, n |-> 0]
          [] ln.kind = "num" ->
               IF -capacity * ln.v <= 0 THEN [saturated |-> FALSE, n |-> 0]
               ELSE [saturated |-> FALSE,
                     n |-> CeilDiv(-capacity * ln.v, ln2_squared)]

\* BloomFilter::optimal_num_hash_functions (0 / 0 is NaN, which casts to 0)
optimal_num_hash_functions(num_bits, capacity) ==
    IF capacity = 0 THEN 0
    ELSE RoundDiv(num_bits * LN_2, capacity * FixedOne)

\* --------------------------------------------------------- BloomFilter
\* the loop of get_index: hash multiplied i times by the constant
RECURSIVE CombinedHash(_, _)
CombinedHash(hash, i) ==
    IF i = 0 THEN hash ELSE WrappingMul(CombinedHash(hash, i - 1), HashMultiplier)

\* the filter configurations the model builds, and the largest k among them
CacheCapacity == 1000
CacheRate == 10
Configs == ((Capacities \cup {CacheCapacity}) \X Rates)
KOf(cfg) ==
    optimal_num_hash_functions(optimal_num_bits(cfg[1], cfg[2]).n, cfg[1])
LargestK == CHOOSE k \in {KOf(cfg) : cfg \in Configs} :
                \A cfg \in Configs : KOf(cfg) <= k

\* CombinedHash, computed once for every hash and round the model uses
CombinedHashes ==
    [h \in HashValues |-> [i \in 0..LargestK |-> CombinedHash(h, i)]]

\* the bit counts of the filters the model builds (0 bits: no index is taken)
BitCounts == {optimal_num_bits(cfg[1], cfg[2]).n : cfg \in Configs} \ {0}

\* get_index, computed once for every filter length, hash and round
IndexTable ==
    [m \in BitCounts |->
        [h \in HashValues |->
            [i \in 0..LargestK |-> U64Mod(CombinedHashes[h][i], m)]]]

\* BloomFilter::get_index
get_index(f, hash, i) == IndexTable[f.num_bits][hash][i]

\* the indexes insert sets and contains reads for one hash
Indexes(f, hash) == {get_index(f, hash, i) : i \in 0..(f.num_hash_functions - 1)}

\* BloomFilter::new, for a bit count that can be allocated
MakeFilter(num_bits, num_hash_functions) ==
    [num_bits |-> num_bits, set_bits |-> {},
     num_hash_functions |-> num_hash_functions, size |-> 0]

\* BloomFilter::new: the filter built, or a panic when vec! cannot allocate
BloomNew(capacity, false_positive_rate) ==
    LET nb == optimal_num_bits(capacity, false_positive_rate)
    IN  IF nb.saturated THEN [panic |-> TRUE, filter |-> MakeFilter(0, 0)]
        ELSE [panic |-> FALSE,
              filter |-> MakeFilter(nb.n, optimal_num_hash_functions(nb.n, capacity))]

BloomSize(f) == f.size
BloomIsEmpty(f) == f.size = 0

\* mutant: a key the filter already reports is not counted again
BloomInsert_CountsNewOnly(f, hash) ==
    [f EXCEPT !.set_bits = @ \cup Indexes(f, hash),
              !.size = IF Indexes(f, hash) \subseteq f.set_bits THEN @
                      ELSE @ + 1]

BloomInsert(f, hash) ==
    [f EXCEPT !.set_bits = @ \cup Indexes(f, hash), !.size = @ + 1]

BloomContains(f, hash) == \A i \in 0..(f.num_hash_functions - 1) :
                              get_index(f, hash, i) \in f.set_bits

\* mutant: the size counter is not reset
BloomClear_KeepsSize(f) == [f EXCEPT !.set_bits = {}]

BloomClear(f) == [f EXCEPT !.set_bits = {}, !.size = 0]

\* the two assert_eq! of merge
MergeConfigOk(f, other) ==
    /\ f.num_bits = other.num_bits
    /\ f.num_hash_functions = other.num_hash_functions

\* mutant: the number of set bits is not divided by k
EstimatedSize_IgnoresK(num_bits, count, num_hash_functions) ==
    IF num_bits = 0 \/ num_hash_functions = 0 THEN 0 ELSE count

\* round(len * density / k) with density = count / len; x / 0 on f64 does
\* not trap: NaN casts to 0
EstimatedSize(num_bits, count, num_hash_functions) ==
    IF num_bits = 0 \/ num_hash_functions = 0 THEN 0
    ELSE RoundDiv(count, num_hash_functions)

\* mutant: the two counters are added
BloomMerge_SumsSizes(f, other) ==
    [f EXCEPT !.set_bits = f.set_bits \cup other.set_bits,
              !.size = f.size + other.size]

\* mutant: the bits are and-ed, not or-ed
BloomMerge_And(f, other) ==
    LET merged == f.set_bits \cap other.set_bits
    IN  [f EXCEPT !.set_bits = merged,
                  !.size = EstimatedSize(f.num_bits, Cardinality(merged),
                                         f.num_hash_functions)]

\* mutant: the bits are assigned from other, not or-ed into self
BloomMerge_Assign(f, other) ==
    [f EXCEPT !.set_bits = other.set_bits,
              !.size = EstimatedSize(f.num_bits, Cardinality(other.set_bits),
                                     f.num_hash_functions)]

\* BloomFilter::merge, past its assertions
BloomMerge(f, other) ==
    LET merged == f.set_bits \cup other.set_bits
    IN  [f EXCEPT !.set_bits = merged,
                  !.size = EstimatedSize(f.num_bits, Cardinality(merged),
                                         f.num_hash_functions)]

\* --------------------------------------------------------------- Entry
\* Entry::with_ttl, called at time t
EntryWithTtl(value, ttl, t) ==
    [value |-> value, ttl |-> ttl, created_at |-> t, last_accessed_at |-> t]

\* Entry::new
EntryNew(value, t) == EntryWithTtl(value, None, t)

\* Entry::age
Age(e, t) == t - e.created_at

\* mutant: the entry expires as soon as its age reaches the ttl
IsExpired_Inclusive(e, t) == e.ttl.some /\ Age(e, t) >= e.ttl.v

\* mutant: an entry without ttl expires once it is older than one time unit
IsExpired_DefaultTtl(e, t) ==
    IF e.ttl.some THEN Age(e, t) > e.ttl.v ELSE Age(e, t) > 1

\* mutant: the ttl runs from the last access
IsExpired_Sliding(e, t) == e.ttl.some /\ t - e.last_accessed_at > e.ttl.v

\* Entry::is_expired
IsExpired(e, t) == e.ttl.some /\ Age(e, t) > e.ttl.v

\* Entry::touch
Touch(e, t) == [e EXCEPT !.last_accessed_at = t]

\* mutant: the update also restarts the entry's age
UpdateValue_ResetsCreation(e, new_value, t) ==
    [e EXCEPT !.value = new_value, !.created_at = t, !.last_accessed_at = t]

\* Entry::update_value
UpdateValue(e, new_value, t) == Touch([e EXCEPT !.value = new_value], t)

\* HashMap / BTreeMap insert, remove and clear on the key -> Entry index
MapInsert(es, key, e) ==
    [x \in (DOMAIN es) \cup {key} |-> IF x = key THEN e ELSE es[x]]
MapRemove(es, key) == [x \in (DOMAIN es) \ {key} |-> es[x]]
EmptyMap == [x \in {} |-> None]

\* ----------------------------------------------- DistributedHashTable

\* DistributedHashTable::new
DHT_new == [entries |-> EmptyMap,
            bloom_filter |-> BloomNew(CacheCapacity, CacheRate).filter]

DHT_size(c) == Cardinality(DOMAIN c.entries)
DHT_is_empty(c) == DOMAIN c.entries = {}

\* mutant: an insert over an entry keeps that entry's ttl
DHT_insert_KeepsTtl(c, h, key, value, t) ==
    [entries |-> MapInsert(c.entries, key,
                    IF key \in DOMAIN c.entries
                    THEN EntryWithTtl(value, c.entries[key].ttl, t)
                    ELSE EntryNew(value, t)),
     bloom_filter |-> BloomInsert(c.bloom_filter, h[key])]

DHT_insert(c, h, key, value, t) ==
    [entries |-> MapInsert(c.entries, key, EntryNew(value, t)),
     bloom_filter |-> BloomInsert(c.bloom_filter, h[key])]

DHT_insert_with_ttl(c, h, key, value, ttl, t) ==
    [entries |-> MapInsert(c.entries, key, EntryWithTtl(value, Some(ttl), t)),
     bloom_filter |-> BloomInsert(c.bloom_filter, h[key])]

\* mutant: a get that finds its entry expired sweeps every expired entry
DHT_get_SweepsExpired(c, h, key, t) ==
    IF ~BloomContains(c.bloom_filter, h[key])
    THEN [cache |-> c, result |-> None]
    ELSE LET is_expired == IF key \in DOMAIN c.entries
                           THEN IsExpired(c.entries[key], t) ELSE FALSE
             live == {k \in DOMAIN c.entries : ~IsExpired(c.entries[k], t)}
         IN  IF is_expired
             THEN [cache |-> [c EXCEPT !.entries = [k \in live |-> @[k]]],
                   result |-> None]
             ELSE IF key \in DOMAIN c.entries
             THEN [cache |-> [c EXCEPT !.entries[key] = Touch(@, t)],
                   result |-> Some(c.entries[key].value)]
             ELSE [cache |-> c, result |-> None]

\* each of the operations below gives the cache it leaves and what it returns
DHT_get(c, h, key, t) ==
    IF ~BloomContains(c.bloom_filter, h[key])
    THEN [cache |-> c, result |-> None]
    ELSE LET is_expired == IF key \in DOMAIN c.entries
                           THEN IsExpired(c.entries[key], t) ELSE FALSE
         IN  IF is_expired
             THEN [cache |-> [c EXCEPT !.entries = MapRemove(@, key)],
                   result |-> None]
             ELSE IF key \in DOMAIN c.entries
             THEN [cache |-> [c EXCEPT !.entries[key] = Touch(@, t)],
                   result |-> Some(c.entries[key].value)]
             ELSE [cache |-> c, result |-> None]

\* mutant: remove also resets the filter
DHT_remove_ClearsFilter(c, key) ==
    IF key \in DOMAIN c.entries
    THEN [cache |-> [entries |-> MapRemove(c.entries, key),
                     bloom_filter |-> BloomClear(c.bloom_filter)],
          result |-> Some(c.entries[key].value)]
    ELSE [cache |-> c, result |-> None]

DHT_remove(c, key) ==
    IF key \in DOMAIN c.entries
    THEN [cache |-> [c EXCEPT !.entries = MapRemove(@, key)],
          result |-> Some(c.entries[key].value)]
    ELSE [cache |-> c, result |-> None]

\* mutant: update of a key that is not in the index creates the entry
DHT_update_Upserts(c, key, value, t) ==
    IF key \in DOMAIN c.entries
    THEN [cache |-> [c EXCEPT !.entries[key] = UpdateValue(@, value, t)],
          result |-> TRUE]
    ELSE [cache |-> [c EXCEPT !.entries = MapInsert(@, key, EntryNew(value, t))],
          result |-> FALSE]

DHT_update(c, key, value, t) ==
    IF key \in DOMAIN c.entries
    THEN [cache |-> [c EXCEPT !.entries[key] = UpdateValue(@, value, t)],
          result |-> TRUE]
    ELSE [cache |-> c, result |-> FALSE]

DHT_clear(c) ==
    [entries |-> EmptyMap, bloom_filter |-> BloomClear(c.bloom_filter)]

\* mutant: an entry in the index is reported without the expiry check
DHT_contains_key_IgnoresExpiry(c, h, key, t) ==
    IF ~BloomContains(c.bloom_filter, h[key])
    THEN [cache |-> c, result |-> FALSE]
    ELSE [cache |-> c, result |-> key \in DOMAIN c.entries]

DHT_contains_key(c, h, key, t) ==
    IF ~BloomContains(c.bloom_filter, h[key])
    THEN [cache |-> c, result |-> FALSE]
    ELSE IF key \in DOMAIN c.entries
         THEN IF IsExpired(c.entries[key], t)
              THEN [cache |-> [c EXCEPT !.entries = MapRemove(@, key)],
                    result |-> FALSE]
              ELSE [cache |-> c, result |-> TRUE]
         ELSE [cache |-> c, result |-> FALSE]

\* --------------------------------------------------------- BTreeCache
\* BTreeCache::new
BT_new == [entries |-> EmptyMap,
           bloom_filter |-> BloomNew(CacheCapacity, CacheRate).filter]

BT_size(c) == Cardinality(DOMAIN c.entries)
BT_is_empty(c) == DOMAIN c.entries = {}

\* mutant: an existing entry is kept (entry().or_insert)
BT_insert_KeepsExisting(c, h, key, value, t) ==
    [entries |-> IF key \in DOMAIN c.entries THEN c.entries
                 ELSE MapInsert(c.entries, key, EntryNew(value, t)),
     bloom_filter |-> BloomInsert(c.bloom_filter, h[key])]

BT_insert(c, h, key, value, t) ==
    [entries |-> MapInsert(c.entries, key, EntryNew(value, t)),
     bloom_filter |-> BloomInsert(c.bloom_filter, h[key])]

\* mutant: an insert with ttl stores the entry without adding to the filter
BT_insert_with_ttl_SkipsFilter(c, h, key, value, ttl, t) ==
    [entries |-> MapInsert(c.entries, key, EntryWithTtl(value, Some(ttl), t)),
     bloom_filter |-> c.bloom_filter]

BT_insert_with_ttl(c, h, key, value, ttl, t) ==
    [entries |-> MapInsert(c.entries, key, EntryWithTtl(value, Some(ttl), t)),
     bloom_filter |-> BloomInsert(c.bloom_filter, h[key])]

\* mutant: evicting an expired entry also resets the filter
BT_get_EvictionResetsFilter(c, h, key, t) ==
    IF ~BloomContains(c.bloom_filter, h[key])
    THEN [cache |-> c, result |-> None]
    ELSE LET is_expired == IF key \in DOMAIN c.entries
                           THEN IsExpired(c.entries[key], t) ELSE FALSE
         IN  IF is_expired
             THEN [cache |-> [entries |-> MapRemove(c.entries, key),
                              bloom_filter |-> BloomClear(c.bloom_filter)],
                   result |-> None]
             ELSE IF key \in DOMAIN c.entries
             THEN [cache |-> [c EXCEPT !.entries[key] = Touch(@, t)],
                   result |-> Some(c.entries[key].value)]
             ELSE [cache |-> c, result |-> None]

BT_get(c, h, key, t) ==
    IF ~BloomContains(c.bloom_filter, h[key])
    THEN [cache |-> c, result |-> None]
    ELSE LET is_expired == IF key \in DOMAIN c.entries
                           THEN IsExpired(c.entries[key], t) ELSE FALSE
         IN  IF is_expired
             THEN [cache |-> [c EXCEPT !.entries = MapRemove(@, key)],
                   result |-> None]
             ELSE IF key \in DOMAIN c.entries
             THEN [cache |-> [c EXCEPT !.entries[key] = Touch(@, t)],
                   result |-> Some(c.entries[key].value)]
             ELSE [cache |-> c, result |-> None]

BT_remove(c, key) ==
    IF key \in DOMAIN c.entries
    THEN [cache |-> [c EXCEPT !.entries = MapRemove(@, key)],
          result |-> Some(c.entries[key].value)]
    ELSE [cache |-> c, result |-> None]

BT_update(c, key, value, t) ==
    IF key \in DOMAIN c.entries
    THEN [cache |-> [c EXCEPT !.entries[key] = UpdateValue(@, value, t)],
          result |-> TRUE]
    ELSE [cache |-> c, result |-> FALSE]

BT_clear(c) ==
    [entries |-> EmptyMap, bloom_filter |-> BloomClear(c.bloom_filter)]

\* mutant: a key that the filter reports and the index lacks is reported
BT_contains_key_TrustsFilter(c, h, key, t) ==
    IF ~BloomContains(c.bloom_filter, h[key])
    THEN [cache |-> c, result |-> FALSE]
    ELSE IF key \in DOMAIN c.entries
         THEN IF IsExpired(c.entries[key], t)
              THEN [cache |-> [c EXCEPT !.entries = MapRemove(@, key)],
                    result |-> FALSE]
              ELSE [cache |-> c, result |-> TRUE]
         ELSE [cache |-> c, result |-> TRUE]

BT_contains_key(c, h, key, t) ==
    IF ~BloomContains(c.bloom_filter, h[key])
    THEN [cache |-> c, result |-> FALSE]
    ELSE IF key \in DOMAIN c.entries
         THEN IF IsExpired(c.entries[key], t)
              THEN [cache |-> [c EXCEPT !.entries = MapRemove(@, key)],
                    result |-> FALSE]
              ELSE [cache |-> c, result |-> TRUE]
         ELSE [cache |-> c, result |-> FALSE]

\* ---------------------------------------------- key order and iteration
\* Ord for String (byte-wise lexicographic) on the strings that are passed
\* as keys or as range bounds, smallest first
KeyOrder == <<"a", "b">>
RangeBounds == {KeyOrder[i] : i \in 1..Len(KeyOrder)}
Rank(k) == CHOOSE i \in 1..Len(KeyOrder) : KeyOrder[i] = k
StrLess(x, y) == Rank(x) < Rank(y)

\* BTreeMap iteration: the keys of the map, smallest first
RECURSIVE Ascending(_)
Ascending(S) ==
    IF S = {} THEN <<>>
    ELSE LET m == CHOOSE x \in S : \A y \in S : ~StrLess(y, x)
         IN  <<m>> \o Ascending(S \ {m})

\* HashMap iteration: the order is unspecified, any order of the keys
Orders(S) ==
    {s \in [1..Cardinality(S) -> S] :
        \A i, j \in 1..Cardinality(S) : s[i] = s[j] => i = j}

\* DistributedHashTable::keys and values: the possible sequences
DHT_keys(c) == Orders(DOMAIN c.entries)
DHT_values(c) ==
    {[i \in DOMAIN ks |-> c.entries[ks[i]].value] : ks \in Orders(DOMAIN c.entries)}

\* BTreeCache::keys
BT_keys(c) == Ascending(DOMAIN c.entries)

\* BTreeCache::values
BT_values(c) ==
    LET ks == Ascending(DOMAIN c.entries)
    IN  [i \in DOMAIN ks |-> c.entries[ks[i]].value]

\* BTreeCache::range: the possible outcomes.  BTreeMap::range panics when
\* start > end and the map holds entries.  A map without a root node
\* (nothing inserted since new or clear, which is when the filter's counter
\* is 0) returns the empty range before the bounds are compared; for a map
\* emptied by remove either outcome is allowed.
BT_range(c, start, end) ==
    LET InRange(k) == ~StrLess(k, start) /\ ~StrLess(end, k)
        ks == SelectSeq(Ascending(DOMAIN c.entries), InRange)
        found == [panic |-> FALSE,
                  items |-> [i \in DOMAIN ks |-> <<ks[i], c.entries[ks[i]].value>>]]
        panicked == [panic |-> TRUE, items |-> <<>>]
    IN  IF StrLess(end, start)
        THEN IF c.bloom_filter.size = 0 THEN {found}
             ELSE IF DOMAIN c.entries = {} THEN {panicked, found}
             ELSE {panicked}
        ELSE {found}

\* mutant: first reads the other end of the map
BT_first_TakesLast(c) ==
    IF DOMAIN c.entries = {} THEN None
    ELSE LET k == CHOOSE x \in DOMAIN c.entries :
                      \A y \in DOMAIN c.entries : ~StrLess(x, y)
         IN  Some(<<k, c.entries[k].value>>)

\* BTreeCache::first
BT_first(c) ==
    IF DOMAIN c.entries = {} THEN None
    ELSE LET k == CHOOSE x \in DOMAIN c.entries :
                      \A y \in DOMAIN c.entries : ~StrLess(y, x)
         IN  Some(<<k, c.entries[k].value>>)

\* BTreeCache::last
BT_last(c) ==
    IF DOMAIN c.entries = {} THEN None
    ELSE LET k == CHOOSE x \in DOMAIN c.entries :
                      \A y \in DOMAIN c.entries : ~StrLess(x, y)
         IN  Some(<<k, c.entries[k].value>>)


\* ------------------------------------------------------------- state
VARIABLES
    backend,    \* which cache type the instance is
    hasher,     \* the u64 DefaultHasher gives each key
    now,        \* Instant::now()
    cache,      \* the cache instance: entries and bloom_filter
    filters,    \* the stand-alone BloomFilter instances, None before new
    inserted,   \* per filter, the keys put in since construction or clear
    history,    \* per filter, the insert calls since construction or clear,
                \* counted until a merge writes the filter
    last,       \* the call that just returned, with what it returned
    fault       \* "none", or "panic" once a call has panicked

vars == <<backend, hasher, now, cache, filters, inserted, history, last,
          fault>>

Backends == {"DistributedHashTable", "BTreeCache"}
FilterIds == {1, 2}

IsDHT == backend = "DistributedHashTable"

\* a filter that has had no insert call and no merge
NoCalls == [inserts |-> 0, merged |-> FALSE]

\* what the key's entry looked like when the call started
Seen(key) ==
    [was_present |-> key \in DOMAIN cache.entries,
     was_expired |-> key \in DOMAIN cache.entries
                     /\ IsExpired(cache.entries[key], now),
     value_before |-> IF key \in DOMAIN cache.entries
                      THEN Some(cache.entries[key].value) ELSE None,
     size_before |-> Cardinality(DOMAIN cache.entries)]

\* the key's entry in the index when the call started
EntryOf(key) ==
    IF key \in DOMAIN cache.entries THEN Some(cache.entries[key]) ELSE None

\* the instance's own method, by its type
CacheSize(c) == IF IsDHT THEN DHT_size(c) ELSE BT_size(c)
CacheIsEmpty(c) == IF IsDHT THEN DHT_is_empty(c) ELSE BT_is_empty(c)
CacheInsert(c, key, value, t) ==
    IF IsDHT THEN DHT_insert(c, hasher, key, value, t)
    ELSE BT_insert(c, hasher, key, value, t)
CacheInsertWithTtl(c, key, value, ttl, t) ==
    IF IsDHT THEN DHT_insert_with_ttl(c, hasher, key, value, ttl, t)
    ELSE BT_insert_with_ttl(c, hasher, key, value, ttl, t)
CacheGet(c, key, t) ==
    IF IsDHT THEN DHT_get(c, hasher, key, t) ELSE BT_get(c, hasher, key, t)
CacheRemove(c, key) == IF IsDHT THEN DHT_remove(c, key) ELSE BT_remove(c, key)
CacheUpdate(c, key, value, t) ==
    IF IsDHT THEN DHT_update(c, key, value, t) ELSE BT_update(c, key, value, t)
CacheClear(c) == IF IsDHT THEN DHT_clear(c) ELSE BT_clear(c)
CacheContainsKey(c, key, t) ==
    IF IsDHT THEN DHT_contains_key(c, hasher, key, t)
    ELSE BT_contains_key(c, hasher, key, t)

CacheKeys(c) == IF IsDHT THEN DHT_keys(c) ELSE {BT_keys(c)}
CacheValues(c) == IF IsDHT THEN DHT_values(c) ELSE {BT_values(c)}

\* ------------------------------------------------------ cache actions
CacheInit ==
    /\ backend \in Backends
    \* up to exchanging the two hash values: the keys collide, or they do not
    /\ hasher \in {h \in [Keys -> HashValues] : h["a"] = U64One}
    /\ now = 0
    /\ cache = IF IsDHT THEN DHT_new ELSE BT_new
    /\ filters = [i \in FilterIds |-> None]
    /\ inserted = [i \in FilterIds |-> {}]
    /\ history = [i \in FilterIds |-> NoCalls]
    /\ last = Call("init")
    /\ fault = "none"

Tick ==
    /\ fault = "none"
    /\ now < MaxTime
    /\ now' = now + 1
    /\ last' = Call("tick")
    /\ UNCHANGED <<backend, hasher, cache, filters, inserted, history, fault>>

Insert ==
    /\ fault = "none"
    /\ cache.bloom_filter.size < MaxInserts
    /\ \E key \in Keys, value \in Values :
         /\ cache' = CacheInsert(cache, key, value, now)
         /\ last' = [op |-> "insert", key |-> key, value |-> value,
                     ttl |-> None, seen |-> Seen(key)]
    /\ UNCHANGED <<backend, hasher, now, filters, inserted, history, fault>>

InsertWithTtl ==
    /\ fault = "none"
    /\ cache.bloom_filter.size < MaxInserts
    /\ \E key \in Keys, value \in Values, ttl \in Ttls :
         /\ cache' = CacheInsertWithTtl(cache, key, value, ttl, now)
         /\ last' = [op |-> "insert_with_ttl", key |-> key, value |-> value,
                     ttl |-> Some(ttl), seen |-> Seen(key)]
    /\ UNCHANGED <<backend, hasher, now, filters, inserted, history, fault>>

Get ==
    /\ fault = "none"
    /\ \E key \in Keys :
         LET r == CacheGet(cache, key, now)
         IN  /\ cache' = r.cache
             /\ last' = [op |-> "get", key |-> key, result |-> r.result,
                         seen |-> Seen(key), entry |-> EntryOf(key)]
    /\ UNCHANGED <<backend, hasher, now, filters, inserted, history, fault>>

Remove ==
    /\ fault = "none"
    /\ \E key \in Keys :
         LET r == CacheRemove(cache, key)
         IN  /\ cache' = r.cache
             /\ last' = [op |-> "remove", key |-> key, result |-> r.result,
                         seen |-> Seen(key)]
    /\ UNCHANGED <<backend, hasher, now, filters, inserted, history, fault>>

Update ==
    /\ fault = "none"
    /\ \E key \in Keys, value \in Values :
         LET r == CacheUpdate(cache, key, value, now)
         IN  /\ cache' = r.cache
             /\ last' = [op |-> "update", key |-> key, value |-> value,
                         result |-> r.result, seen |-> Seen(key)]
    /\ UNCHANGED <<backend, hasher, now, filters, inserted, history, fault>>

Clear ==
    /\ fault = "none"
    /\ cache' = CacheClear(cache)
    /\ last' = [op |-> "clear",
                size_before |-> Cardinality(DOMAIN cache.entries),
                filter_size_before |-> cache.bloom_filter.size]
    /\ UNCHANGED <<backend, hasher, now, filters, inserted, history, fault>>

ContainsKey ==
    /\ fault = "none"
    /\ \E key \in Keys :
         LET r == CacheContainsKey(cache, key, now)
         IN  /\ cache' = r.cache
             /\ last' = [op |-> "contains_key", key |-> key,
                         result |-> r.result, seen |-> Seen(key)]
    /\ UNCHANGED <<backend, hasher, now, filters, inserted, history, fault>>

Size ==
    /\ fault = "none"
    /\ last' = [op |-> "size", result |-> CacheSize(cache),
                is_empty |-> CacheIsEmpty(cache)]
    /\ UNCHANGED <<backend, hasher, now, cache, filters, inserted, history,
                   fault>>

\* cache.keys().collect()
KeysIter ==
    /\ fault = "none"
    /\ \E r \in CacheKeys(cache) : last' = [op |-> "keys", result |-> r]
    /\ UNCHANGED <<backend, hasher, now, cache, filters, inserted, history,
                   fault>>

\* cache.values().collect()
ValuesIter ==
    /\ fault = "none"
    /\ \E r \in CacheValues(cache) : last' = [op |-> "values", result |-> r]
    /\ UNCHANGED <<backend, hasher, now, cache, filters, inserted, history,
                   fault>>

\* cache.range(start, end).collect(), BTreeCache only
Range ==
    /\ fault = "none"
    /\ ~IsDHT
    /\ \E start \in RangeBounds, end \in RangeBounds :
         \E r \in BT_range(cache, start, end) :
            /\ fault' = IF r.panic THEN "panic" ELSE "none"
            /\ last' = [op |-> "range", start |-> start, end |-> end,
                        result |-> IF r.panic THEN "panic" ELSE "ok",
                        items |-> r.items]
    /\ UNCHANGED <<backend, hasher, now, cache, filters, inserted, history>>

\* cache.first(), BTreeCache only
First ==
    /\ fault = "none"
    /\ ~IsDHT
    /\ last' = [op |-> "first", result |-> BT_first(cache)]
    /\ UNCHANGED <<backend, hasher, now, cache, filters, inserted, history,
                   fault>>

\* cache.last(), BTreeCache only
Last ==
    /\ fault = "none"
    /\ ~IsDHT
    /\ last' = [op |-> "last", result |-> BT_last(cache)]
    /\ UNCHANGED <<backend, hasher, now, cache, filters, inserted, history,
                   fault>>

Next ==
    \/ Tick
    \/ Insert
    \/ InsertWithTtl
    \/ Get
    \/ Remove
    \/ Update
    \/ Clear
    \/ ContainsKey
    \/ Size
    \/ KeysIter
    \/ ValuesIter
    \/ Range
    \/ First
    \/ Last

Spec == CacheInit /\ [][Next]_vars

\* The cache has no thread and no timer of its own: every step but the
\* passing of time is a call of the owner.  The clock advances, and the
\* owner keeps observing the cache through size(), keys() and values();
\* nothing makes the owner call get or contains_key on a given key.
LiveSpec ==
    /\ Spec
    /\ WF_vars(Tick)
    /\ WF_vars(Size)
    /\ WF_vars(KeysIter)
    /\ WF_vars(ValuesIter)

\* ----------------------------------------------------- filter actions
FilterInit ==
    /\ backend = "DistributedHashTable"
    /\ hasher \in [Keys -> HashValues]
    /\ now = 0
    /\ cache = DHT_new
    /\ filters = [i \in FilterIds |-> None]
    /\ inserted = [i \in FilterIds |-> {}]
    /\ history = [i \in FilterIds |-> NoCalls]
    /\ last = Call("init")
    /\ fault = "none"

\* let filter_i = BloomFilter::new(capacity, false_positive_rate)
FNew ==
    /\ fault = "none"
    /\ \E i \in FilterIds, capacity \in Capacities, rate \in Rates :
         LET r == BloomNew(capacity, rate)
         IN  /\ ~filters[i].some
             /\ filters' = IF r.panic THEN filters
                           ELSE [filters EXCEPT ![i] = Some(r.filter)]
             /\ fault' = IF r.panic THEN "panic" ELSE "none"
             /\ last' = [op |-> "new", id |-> i, capacity |-> capacity,
                         rate |-> rate,
                         result |-> IF r.panic THEN "panic" ELSE "ok"]
    /\ UNCHANGED <<backend, hasher, now, cache, inserted, history>>

FInsert ==
    /\ fault = "none"
    /\ \E i \in FilterIds, key \in Keys :
         /\ filters[i].some
         /\ filters[i].v.size < MaxInserts
         /\ filters' = [filters EXCEPT
                          ![i] = Some(BloomInsert(filters[i].v, hasher[key]))]
         /\ inserted' = [inserted EXCEPT ![i] = @ \cup {key}]
         /\ history' = [history EXCEPT ![i].inserts =
                           IF history[i].merged THEN @ ELSE @ + 1]
         /\ last' = [op |-> "insert", id |-> i, key |-> key,
                     size_before |-> filters[i].v.size]
    /\ UNCHANGED <<backend, hasher, now, cache, fault>>

FContains ==
    /\ fault = "none"
    /\ \E i \in FilterIds, key \in Keys :
         /\ filters[i].some
         /\ last' = [op |-> "contains", id |-> i, key |-> key,
                     result |-> BloomContains(filters[i].v, hasher[key])]
    /\ UNCHANGED <<backend, hasher, now, cache, filters, inserted, history,
                   fault>>

FClear ==
    /\ fault = "none"
    /\ \E i \in FilterIds :
         /\ filters[i].some
         /\ filters' = [filters EXCEPT ![i] = Some(BloomClear(filters[i].v))]
         /\ inserted' = [inserted EXCEPT ![i] = {}]
         /\ history' = [history EXCEPT ![i] = NoCalls]
         /\ last' = [op |-> "clear", id |-> i]
    /\ UNCHANGED <<backend, hasher, now, cache, fault>>

\* filter_i.merge(&filter_j): the assertions panic before anything is written
FMerge ==
    /\ fault = "none"
    /\ \E i \in FilterIds, j \in FilterIds :
         /\ i # j
         /\ filters[i].some /\ filters[j].some
         /\ IF MergeConfigOk(filters[i].v, filters[j].v)
            THEN /\ filters' = [filters EXCEPT
                       ![i] = Some(BloomMerge(filters[i].v, filters[j].v))]
                 /\ inserted' = [inserted EXCEPT ![i] = @ \cup inserted[j]]
                 /\ history' = [history EXCEPT
                                  ![i] = [inserts |-> 0, merged |-> TRUE]]
                 /\ fault' = "none"
                 /\ last' = [op |-> "merge", id |-> i, other |-> j,
                             result |-> "ok", before |-> filters,
                             keys_before |-> inserted]
            ELSE /\ fault' = "panic"
                 /\ last' = [op |-> "merge", id |-> i, other |-> j,
                             result |-> "panic", before |-> filters,
                             keys_before |-> inserted]
                 /\ UNCHANGED <<filters, inserted, history>>
    /\ UNCHANGED <<backend, hasher, now, cache>>

FSize ==
    /\ fault = "none"
    /\ \E i \in FilterIds :
         /\ filters[i].some
         /\ last' = [op |-> "size", id |-> i,
                     result |-> BloomSize(filters[i].v),
                     is_empty |-> BloomIsEmpty(filters[i].v)]
    /\ UNCHANGED <<backend, hasher, now, cache, filters, inserted, history,
                   fault>>

FilterNext ==
    \/ FNew
    \/ FInsert
    \/ FContains
    \/ FClear
    \/ FMerge
    \/ FSize

FilterSpec == FilterInit /\ [][FilterNext]_vars

\* -------------------------------------------------------------- claims
Times == 0..MaxTime
\* the entries of c other than key's are those of d
SameButFor(c, d, key) ==
    /\ (DOMAIN c.entries) \ {key} = (DOMAIN d.entries) \ {key}
    /\ \A x \in (DOMAIN c.entries) \ {key} : c.entries[x] = d.entries[x]

\* what C1 requires of one step (last' is the call the step makes)
C1_Step ==
    /\ last'.op = "insert_with_ttl" =>
         /\ last'.key \in DOMAIN cache'.entries
         /\ cache'.entries[last'.key] =
              [value |-> last'.value, ttl |-> last'.ttl,
               created_at |-> now, last_accessed_at |-> now]
    /\ (/\ last'.op = "get"
        /\ last'.key \in DOMAIN cache.entries
        /\ cache.entries[last'.key].ttl.some) =>
         LET key == last'.key
             e == cache.entries[key]
         IN  IF now - e.created_at <= e.ttl.v
             THEN /\ last'.result = Some(e.value)
                  /\ key \in DOMAIN cache'.entries
                  /\ CacheSize(cache') = CacheSize(cache)
             ELSE /\ last'.result = None
                  /\ key \notin DOMAIN cache'.entries
                  /\ SameButFor(cache', cache, key)
                  /\ CacheSize(cache') = CacheSize(cache) - 1
                  /\ cache'.bloom_filter = cache.bloom_filter
\* C1: insert_with_ttl(key, value, d) at time t stores an entry created at t
\* with ttl d; a get of such an entry at age <= d returns its value and keeps
\* it, and a get at age > d returns absent, removes just that entry, lowers
\* size() by exactly one and leaves the filter as it was.
C1_TtlCorrectness == [][C1_Step]_vars

\* a get has found its key's entry expired and evicted it
C1_Witness ==
    /\ last.op = "get"
    /\ last.seen.was_expired
    /\ last.result = None
    /\ CacheSize(cache) = last.seen.size_before - 1

\* C2: every key inserted into a filter (or into a filter merged into it)
\* since the filter's construction or last clear() is reported by contains.
C2_NoFalseNegatives ==
    \A i \in FilterIds :
        filters[i].some =>
            \A key \in inserted[i] : BloomContains(filters[i].v, hasher[key])

\* a merge into a filter that holds keys and has bits to test
C2_Witness ==
    /\ last.op = "merge"
    /\ last.result = "ok"
    /\ inserted[last.id] # {}
    /\ inserted[last.id] # inserted[last.other]
    /\ filters[last.id].v.num_hash_functions > 0

\* C3 (as claimed): size() and is_empty() count only the live entries of the
\* index; an entry whose TTL has elapsed is not counted.
LiveKeys == {key \in DOMAIN cache.entries : ~IsExpired(cache.entries[key], now)}
C3_SizeCountsOnlyLive ==
    /\ CacheSize(cache) = Cardinality(LiveKeys)
    /\ CacheIsEmpty(cache) = (LiveKeys = {})

\* what C4 requires of one step (last' is the call the step makes)
C4_Step ==
    last'.op \in {"insert", "insert_with_ttl"} =>
        LET key == last'.key
        IN  /\ CacheSize(cache') = IF key \in DOMAIN cache.entries
                                   THEN CacheSize(cache)
                                   ELSE CacheSize(cache) + 1
            /\ SameButFor(cache', cache, key)
            /\ \A t \in Times :
                 (t >= now /\ (last'.ttl.some => t - now <= last'.ttl.v)) =>
                     CacheGet(cache', key, t).result = Some(last'.value)
\* C4: insert and insert_with_ttl over a key in the index leave size()
\* unchanged, over a key not in the index raise it by one, and a get of the
\* key that follows (while the new entry is not expired) returns the value.
C4_Overwrite == [][C4_Step]_vars

\* an insert has replaced an entry that held another value
C4_Witness ==
    /\ last.op \in {"insert", "insert_with_ttl"}
    /\ last.seen.was_present
    /\ last.seen.value_before # Some(last.value)
    /\ CacheSize(cache) = last.seen.size_before

\* what C5 requires of one step (last' is the call the step makes)
C5_Step ==
    last'.op = "remove" =>
        LET key == last'.key
        IN  /\ last'.result = IF key \in DOMAIN cache.entries
                              THEN Some(cache.entries[key].value) ELSE None
            /\ key \notin DOMAIN cache'.entries
            /\ SameButFor(cache', cache, key)
            /\ cache'.bloom_filter = cache.bloom_filter
            /\ \A t \in Times :
                 t >= now =>
                     /\ CacheContainsKey(cache', key, t).result = FALSE
                     /\ CacheGet(cache', key, t).result = None
\* C5: remove(key) returns the prior value (absent if the key was not in the
\* index), takes the key and nothing else out of the index, leaves the filter
\* as it was, and contains_key / get of the key then answer false / absent.
C5_Remove == [][C5_Step]_vars

\* a remove has taken out an entry whose key the filter still reports
C5_Witness ==
    /\ last.op = "remove"
    /\ last.result # None
    /\ last.key \notin DOMAIN cache.entries
    /\ BloomContains(cache.bloom_filter, hasher[last.key])

\* the calls that look one key up, and the result that says "not found"
Lookups == {"get", "remove", "update", "contains_key"}
NotFound == IF last.op \in {"get", "remove"} THEN last.result = None
            ELSE last.result = FALSE

\* C6 (as claimed): on a key whose entry is absent from the index or expired,
\* get, remove, update and contains_key all answer "not found", and none
\* raises a fault.
C6_NotFoundAsClaimed ==
    (last.op \in Lookups /\ (~last.seen.was_present \/ last.seen.was_expired))
        => (NotFound /\ fault = "none")

\* C6 (amended): on a key absent from the index all four answer "not found";
\* on an entry expired but not yet evicted get and contains_key answer "not
\* found", while remove returns the prior value and update returns success;
\* none of the four raises a fault.
C6_NotFound ==
    /\ last.op \in Lookups => fault = "none"
    /\ (last.op \in Lookups /\ ~last.seen.was_present) => NotFound
    /\ (last.op \in {"get", "contains_key"} /\ last.seen.was_expired) => NotFound
    /\ (last.op = "remove" /\ last.seen.was_expired) =>
           last.result = last.seen.value_before
    /\ (last.op = "update" /\ last.seen.was_expired) => last.result = TRUE

\* contains_key has met an entry that is in the index but expired
C6_Witness ==
    /\ last.op = "contains_key"
    /\ last.seen.was_expired
    /\ last.result = FALSE

\* C7 (as claimed): update on an expired, not yet evicted entry returns
\* success and the entry is live again: get right after returns the new value
\* and contains_key returns true.
C7_UpdateRevivesAsClaimed ==
    (last.op = "update" /\ last.seen.was_expired) =>
        /\ last.result = TRUE
        /\ CacheGet(cache, last.key, now).result = Some(last.value)
        /\ CacheContainsKey(cache, last.key, now).result = TRUE

\* C7 (amended): update on an expired, not yet evicted entry returns success,
\* replaces the value and the last access time, and leaves the entry expired:
\* a get or contains_key at any later time answers "not found" and evicts it.
C7_UpdateKeepsExpired ==
    (last.op = "update" /\ last.seen.was_expired) =>
        /\ last.result = TRUE
        /\ last.key \in DOMAIN cache.entries
        /\ cache.entries[last.key].value = last.value
        /\ cache.entries[last.key].last_accessed_at = now
        /\ \A t \in Times :
             t >= now =>
                 /\ CacheGet(cache, last.key, t).result = None
                 /\ last.key \notin DOMAIN CacheGet(cache, last.key, t).cache.entries
                 /\ CacheContainsKey(cache, last.key, t).result = FALSE

\* an update has been applied to an expired entry
C7_Witness ==
    /\ last.op = "update"
    /\ last.seen.was_expired
    /\ last.result = TRUE
    /\ last.seen.value_before # Some(last.value)

\* C8: after clear() the index is empty (size() = 0, is_empty()), get and
\* contains_key find no key, every filter bit and the filter's size counter
\* are zero, and a key inserted next is found.
C8_Clear ==
    last.op = "clear" =>
        /\ CacheSize(cache) = 0
        /\ CacheIsEmpty(cache)
        /\ cache.bloom_filter.set_bits = {}
        /\ BloomSize(cache.bloom_filter) = 0
        /\ \A key \in Keys :
             /\ \A t \in Times :
                  t >= now =>
                      /\ CacheGet(cache, key, t).result = None
                      /\ CacheContainsKey(cache, key, t).result = FALSE
             /\ \A value \in Values :
                  CacheGet(CacheInsert(cache, key, value, now), key, now).result
                      = Some(value)

\* a clear of a cache that held entries and filter bits
C8_Witness ==
    /\ last.op = "clear"
    /\ last.size_before > 0
    /\ last.filter_size_before > 0

\* C9 (as claimed): a merge of two filters whose bit counts or hash counts
\* differ returns an error to the caller, no fault is raised, and both
\* filters are as they were.  Stated for filters that have bits and hash
\* functions, so that the case does not rest on degenerate filters.
C9_MergeMismatchIsRecoverable ==
    (/\ last.op = "merge"
     /\ \A i \in FilterIds : /\ last.before[i].v.num_bits > 0
                             /\ last.before[i].v.num_hash_functions > 0
     /\ ~MergeConfigOk(last.before[last.id].v, last.before[last.other].v)) =>
        /\ last.result # "panic"
        /\ fault = "none"
        /\ filters = last.before

\* C10 (as claimed): new rejects capacity <= 0 and every rate outside (0, 1)
\* with an error, and no filter with zero bits is ever built.
C10_NewRejectsBadArguments ==
    /\ (/\ last.op = "new"
        /\ (last.capacity <= 0 \/ last.rate <= 0 \/ last.rate >= 1000)) =>
           (last.result # "ok" /\ ~filters[last.id].some)
    /\ \A i \in FilterIds : filters[i].some => filters[i].v.num_bits > 0

\* the keys the cache's filter reports as possibly present
Reported(c) == {key \in Keys : BloomContains(c.bloom_filter, hasher[key])}
\* what C11 requires of one step
C11_Step ==
    /\ last'.op \in {"insert", "insert_with_ttl"} =>
           last'.key \in Reported(cache')
    /\ last'.op # "clear" =>
           \/ cache'.bloom_filter = cache.bloom_filter
           \/ /\ cache.bloom_filter.set_bits
                    \subseteq cache'.bloom_filter.set_bits
              /\ Reported(cache) \subseteq Reported(cache')
\* C11: in both caches a key passed to insert or insert_with_ttl is reported
\* as possibly present by the cache's filter, and every step other than
\* clear() -- get, contains_key, update, remove, an eviction of an expired
\* entry, the passing of time -- keeps every set bit set and every reported
\* key reported.
C11_FilterIsMonotonic == [][C11_Step]_vars

\* a get or contains_key has evicted an expired entry and the filter still
\* reports its key
C11_Witness ==
    /\ last.op \in {"get", "contains_key"}
    /\ last.seen.was_expired
    /\ last.key \notin DOMAIN cache.entries
    /\ last.key \in Reported(cache)

\* C12: after b.merge(a) on two filters of the same configuration, every key
\* that a.contains or b.contains reported before the merge is reported by
\* b.contains afterwards, and a is left as it was.
C12_MergeIsUnion ==
    (last.op = "merge" /\ last.result = "ok") =>
        LET a == last.before[last.other].v
            b == last.before[last.id].v
        IN  /\ \A key \in Keys :
                  (\/ BloomContains(a, hasher[key])
                   \/ BloomContains(b, hasher[key])) =>
                      BloomContains(filters[last.id].v, hasher[key])
            /\ filters[last.other] = last.before[last.other]

\* a merge has brought b a key that only a reported, b holding bits of its
\* own that a lacks
C12_Witness ==
    /\ last.op = "merge" /\ last.result = "ok"
    /\ filters[last.id].v.num_hash_functions > 0
    /\ ~(last.before[last.id].v.set_bits
            \subseteq last.before[last.other].v.set_bits)
    /\ \E key \in Keys :
          /\ BloomContains(last.before[last.other].v, hasher[key])
          /\ ~BloomContains(last.before[last.id].v, hasher[key])
          /\ BloomContains(filters[last.id].v, hasher[key])

\* the keys of the index that lie in [start, end]
KeysWithin(start, end) ==
    {k \in DOMAIN cache.entries : ~StrLess(k, start) /\ ~StrLess(end, k)}
\* items holds exactly the entries of the keys in S, each once, ascending
YieldsAscending(items, S) ==
    /\ Len(items) = Cardinality(S)
    /\ {items[i][1] : i \in DOMAIN items} = S
    /\ \A i \in DOMAIN items : items[i][2] = cache.entries[items[i][1]].value
    /\ \A i, j \in DOMAIN items : i < j => StrLess(items[i][1], items[j][1])
\* C13: for every pair of keys start and end, range(start, end) on a
\* BTreeCache raises no fault and yields exactly the entries of the index
\* whose key k has start <= k <= end, each once, in ascending key order.
C13_RangeIsInclusive ==
    last.op = "range" =>
        /\ fault = "none"
        /\ YieldsAscending(last.items, KeysWithin(last.start, last.end))

\* ks enumerates the keys of the index, each once, smallest first
AscendingKeys(ks) ==
    /\ Len(ks) = Cardinality(DOMAIN cache.entries)
    /\ {ks[i] : i \in DOMAIN ks} = DOMAIN cache.entries
    /\ \A i, j \in DOMAIN ks : i < j => StrLess(ks[i], ks[j])
\* C14: on a BTreeCache, whatever the order of the inserts, first() returns
\* the entry of the smallest key and last() that of the largest, each absent
\* exactly when the index is empty, and keys() and values() enumerate the
\* index in ascending key order.
C14_OrderedIteration ==
    ~IsDHT =>
        /\ last.op \in {"first", "last"} =>
               /\ last.result.some = (DOMAIN cache.entries # {})
               /\ last.result.some =>
                     /\ last.result.v[1] \in DOMAIN cache.entries
                     /\ last.result.v[2] =
                            cache.entries[last.result.v[1]].value
        /\ (last.op = "first" /\ last.result.some) =>
               \A k \in DOMAIN cache.entries : ~StrLess(k, last.result.v[1])
        /\ (last.op = "last" /\ last.result.some) =>
               \A k \in DOMAIN cache.entries : ~StrLess(last.result.v[1], k)
        /\ last.op = "keys" => AscendingKeys(last.result)
        /\ last.op = "values" =>
               \E ks \in [1..Len(last.result) -> DOMAIN cache.entries] :
                  /\ AscendingKeys(ks)
                  /\ \A i \in DOMAIN ks :
                        last.result[i] = cache.entries[ks[i]].value

\* "b" was inserted before "a" with another value, and first() has returned
\* the entry of "a"
C14_Witness ==
    /\ ~IsDHT
    /\ last.op = "first"
    /\ DOMAIN cache.entries = {"a", "b"}
    /\ cache.entries["b"].created_at < cache.entries["a"].created_at
    /\ cache.entries["a"].value # cache.entries["b"].value
    /\ last.result = Some(<<"a", cache.entries["a"].value>>)

\* what C15 requires of an update step, but for the get that follows it
C15_UpdateStep ==
    LET key == last'.key
    IN  /\ last'.result = (key \in DOMAIN cache.entries)
        /\ last'.result = TRUE =>
              /\ DOMAIN cache'.entries = DOMAIN cache.entries
              /\ SameButFor(cache', cache, key)
              /\ cache'.entries[key].value = last'.value
              /\ cache'.entries[key].ttl = cache.entries[key].ttl
              /\ cache'.entries[key].created_at = cache.entries[key].created_at
              /\ cache'.bloom_filter = cache.bloom_filter
        /\ last'.result = FALSE => cache' = cache

\* C15 (as claimed): update(key, v) returns success iff key is in the index;
\* on success the value becomes v and a get right after returns v, the index
\* size, the entry's ttl and created_at and the filter being unchanged; on
\* failure the whole cache is unchanged.
C15_UpdateAsClaimed ==
    [][last'.op = "update" =>
         /\ C15_UpdateStep
         /\ last'.result = TRUE =>
               CacheGet(cache', last'.key, now').result = Some(last'.value)]_vars

\* C15 (amended): update(key, v) returns success iff key is in the index; on
\* success the value becomes v, the index size, the entry's ttl and
\* created_at and the filter being unchanged, and a get right after returns
\* v when the entry is not expired and absent when it is; on failure the
\* whole cache is unchanged.
C15_Update ==
    [][last'.op = "update" =>
         /\ C15_UpdateStep
         /\ last'.result = TRUE =>
               CacheGet(cache', last'.key, now').result =
                   IF /\ cache.entries[last'.key].ttl.some
                      /\ now' - cache.entries[last'.key].created_at >
                             cache.entries[last'.key].ttl.v
                   THEN None ELSE Some(last'.value)]_vars

\* update has given a new value to a live entry that carries a ttl and was
\* created earlier
C15_Witness ==
    /\ last.op = "update" /\ last.result = TRUE
    /\ ~last.seen.was_expired
    /\ last.seen.value_before # Some(last.value)
    /\ cache.entries[last.key].ttl.some
    /\ cache.entries[last.key].created_at < now
    /\ cache.entries[last.key].value = last.value

\* C16: a filter built by BloomFilter::new(capacity, rate) with capacity > 0
\* and 0 < rate < 1 has no bit set, size 0 and at least one hash function,
\* so it answers contains(key) = false for every key.
C16_FreshFilterIsEmpty ==
    (/\ last.op = "new"
     /\ last.capacity > 0
     /\ 0 < last.rate /\ last.rate < 1000) =>
        /\ last.result = "ok"
        /\ filters[last.id].v.set_bits = {}
        /\ filters[last.id].v.size = 0
        /\ filters[last.id].v.num_hash_functions >= 1
        /\ \A key \in Keys : ~BloomContains(filters[last.id].v, hasher[key])

\* a merge of two filters with bits and hash functions has just succeeded,
\* each filter having had each of its keys inserted once
MergedOnceEach ==
    /\ last.op = "merge" /\ last.result = "ok"
    /\ filters[last.id].v.num_bits > 0
    /\ filters[last.id].v.num_hash_functions > 0
    /\ \A i \in {last.id, last.other} :
          last.before[i].v.size = Cardinality(last.keys_before[i])
\* the distinct keys of S1 union S2
MergedKeys == last.keys_before[last.id] \cup last.keys_before[last.other]

\* C17 (as claimed): after a.merge(b) on two filters of the same
\* configuration into which the key sets S1 and S2 were inserted, each key
\* once, a.size() is the number of distinct keys in S1 union S2.
C17_MergedSizeAsClaimed ==
    MergedOnceEach => filters[last.id].v.size = Cardinality(MergedKeys)

\* C17 (amended): after such a merge a.size() is at most the number of
\* distinct keys in S1 union S2, and equals it when the probes of these keys
\* have set k bits per key, no bit being shared.
C17_MergedSize ==
    MergedOnceEach =>
        LET f == filters[last.id].v
        IN  /\ f.size <= Cardinality(MergedKeys)
            /\ Cardinality(f.set_bits) =
                   f.num_hash_functions * Cardinality(MergedKeys) =>
                      f.size = Cardinality(MergedKeys)

\* a merge of {x} into {x, y} without shared bits has left size 2
C17_Witness ==
    /\ MergedOnceEach
    /\ Cardinality(last.keys_before[last.id]) = 2
    /\ Cardinality(last.keys_before[last.other]) = 1
    /\ Cardinality(filters[last.id].v.set_bits) =
           2 * filters[last.id].v.num_hash_functions
    /\ filters[last.id].v.size = 2

\* C18: after every successful merge the bit array is the or of the two and
\* the size counter is round(number of set bits / k) of it (0 where the
\* quotient is NaN), whatever the two counters were before: where the sum of
\* the two counters differs from that estimate, size is the estimate.
C18_MergeReestimatesSize ==
    (last.op = "merge" /\ last.result = "ok") =>
        LET f == filters[last.id].v
            k == f.num_hash_functions
            count == Cardinality(f.set_bits)
        IN  /\ f.set_bits = last.before[last.id].v.set_bits
                               \cup last.before[last.other].v.set_bits
            /\ IF k = 0 \/ f.num_bits = 0 THEN f.size = 0
               ELSE /\ 2 * k * f.size - k <= 2 * count
                    /\ 2 * count < 2 * k * f.size + k

\* a merge has left a non-zero size that is neither the sum of the two
\* counters nor either of them
C18_Witness ==
    /\ last.op = "merge" /\ last.result = "ok"
    /\ filters[last.id].v.size > 0
    /\ filters[last.id].v.size #
           last.before[last.id].v.size + last.before[last.other].v.size
    /\ filters[last.id].v.size # last.before[last.id].v.size
    /\ filters[last.id].v.size # last.before[last.other].v.size

\* C19: every insert call adds exactly one to the filter's size counter,
\* duplicates and inserts beyond the capacity included; while no merge has
\* written the filter since its construction or last clear(), size() is the
\* number of insert calls since then and is_empty() holds iff there was none.
C19_SizeCountsInsertCalls ==
    /\ last.op = "insert" =>
           BloomSize(filters[last.id].v) = last.size_before + 1
    /\ \A i \in FilterIds :
          (filters[i].some /\ ~history[i].merged) =>
              /\ BloomSize(filters[i].v) = history[i].inserts
              /\ BloomIsEmpty(filters[i].v) = (history[i].inserts = 0)

\* the same key has been inserted twice into the filter built by
\* new(1, 0.01), whose size is now 2
C19_Witness ==
    /\ last.op = "insert"
    /\ filters[last.id].v.num_bits = 10
    /\ ~history[last.id].merged
    /\ history[last.id].inserts = 2
    /\ Cardinality(inserted[last.id]) = 1
    /\ BloomSize(filters[last.id].v) = 2

\* key's entry is in the index and its ttl has elapsed
ExpiredInIndex(key) ==
    /\ key \in DOMAIN cache.entries
    /\ IsExpired(cache.entries[key], now)
\* C20: in every execution, once the ttl of an entry put by insert_with_ttl
\* has elapsed, that entry eventually leaves the index, so that size(),
\* keys() and values() stop counting and listing it.
C20_ExpiredEntriesDisappear ==
    \A key \in Keys : ExpiredInIndex(key) ~> ~ExpiredInIndex(key)

\* the entry has a ttl and, at time t, is older than it
TtlElapsed(e, t) == e.ttl.some /\ t - e.created_at > e.ttl.v
\* a step that takes key out of the index is one of the four removing calls
LeavesByCall(key) ==
    \/ /\ last'.op \in {"get", "contains_key"}
       /\ last'.key = key
       /\ TtlElapsed(cache.entries[key], now)
    \/ last'.op = "remove" /\ last'.key = key
    \/ last'.op = "clear"
C22_Step ==
    \A key \in DOMAIN cache.entries \ DOMAIN cache'.entries :
        LeavesByCall(key)
\* C22: a key leaves the index only in a step that is get or contains_key
\* on that key finding its entry expired, remove of that key, or clear;
\* insert, insert_with_ttl, update, keys, values, range, first, last and
\* the passing of time remove no key, and get, contains_key and remove of
\* one key remove no other key.
C22_EntryLeavesOnlyByCall == [][C22_Step]_vars
\* a get has evicted its own expired entry and left the other expired
\* entry in the index
C22_Witness ==
    /\ last.op = "get"
    /\ last.seen.was_expired
    /\ last.key \notin DOMAIN cache.entries
    /\ \E other \in Keys \ {last.key} : ExpiredInIndex(other)

\* what C23 requires of a get or contains_key of a key that is in the index
C23_Step ==
    \A key \in DOMAIN cache.entries :
        LET e == cache.entries[key]
            expired == e.ttl.some /\ now - e.created_at > e.ttl.v
        IN  /\ (last'.op = "get" /\ last'.key = key) =>
                 /\ last'.result = IF expired THEN None ELSE Some(e.value)
                 /\ expired <=> key \notin DOMAIN cache'.entries
            /\ (last'.op = "contains_key" /\ last'.key = key) =>
                 /\ last'.result = ~expired
                 /\ expired <=> key \notin DOMAIN cache'.entries
\* C23: an entry is treated as expired exactly when it has a ttl and its age
\* (now - created_at) is strictly greater than the ttl: at an age equal to
\* the ttl get still returns the value, and an entry without ttl is never
\* expired however old it is.
C23_ExpirationPredicate == [][C23_Step]_vars
\* a get has returned the value of an entry whose age is exactly its ttl,
\* beside an entry without ttl that is as old as the clock allows
C23_Witness ==
    /\ last.op = "get"
    /\ last.key \in DOMAIN cache.entries
    /\ last.result = Some(cache.entries[last.key].value)
    /\ cache.entries[last.key].ttl = Some(MaxTtl)
    /\ now - cache.entries[last.key].created_at = MaxTtl
    /\ \E other \in DOMAIN cache.entries :
         /\ ~cache.entries[other].ttl.some
         /\ now - cache.entries[other].created_at = MaxTime

\* C24: in every reachable state of either cache, every key in the index is
\* reported by the cache's own filter, so the filter test that get and
\* contains_key make first never hides an entry of the index.
C24_IndexWithinFilter ==
    \A key \in DOMAIN cache.entries :
        BloomContains(cache.bloom_filter, hasher[key])
\* a get has evicted one key's expired entry and the other key, which sets
\* other bits, is still in the index and reported
C24_Witness ==
    /\ last.op = "get"
    /\ last.seen.was_expired
    /\ \E other \in DOMAIN cache.entries :
         /\ hasher[other] # hasher[last.key]
         /\ BloomContains(cache.bloom_filter, hasher[other])

\* The reference of C25: a key -> entry map with a ttl per entry and lazy
\* expiration on get and contains_key, and no filter.  Each operation gives
\* the map it leaves and what it returns.
Ref_put(es, key, value, ttl, t) ==
    [x \in (DOMAIN es) \cup {key} |->
        IF x = key
        THEN [value |-> value, ttl |-> ttl,
              created_at |-> t, last_accessed_at |-> t]
        ELSE es[x]]
Ref_drop(es, key) == [x \in (DOMAIN es) \ {key} |-> es[x]]
Ref_get(es, key, t) ==
    IF key \notin DOMAIN es THEN [entries |-> es, result |-> None]
    ELSE IF TtlElapsed(es[key], t)
    THEN [entries |-> Ref_drop(es, key), result |-> None]
    ELSE [entries |-> [es EXCEPT ![key].last_accessed_at = t],
          result |-> Some(es[key].value)]
Ref_contains_key(es, key, t) ==
    IF key \notin DOMAIN es THEN [entries |-> es, result |-> FALSE]
    ELSE IF TtlElapsed(es[key], t)
    THEN [entries |-> Ref_drop(es, key), result |-> FALSE]
    ELSE [entries |-> es, result |-> TRUE]
Ref_update(es, key, value, t) ==
    IF key \notin DOMAIN es THEN [entries |-> es, result |-> FALSE]
    ELSE [entries |-> [es EXCEPT ![key].value = value,
                                 ![key].last_accessed_at = t],
          result |-> TRUE]
Ref_remove(es, key) ==
    IF key \notin DOMAIN es THEN [entries |-> es, result |-> None]
    ELSE [entries |-> Ref_drop(es, key), result |-> Some(es[key].value)]
\* the call of the step, made on the reference in the state the cache's
\* index is in
Ref_call(es, call, t) ==
    CASE call.op = "insert" ->
           [entries |-> Ref_put(es, call.key, call.value, None, t),
            result |-> None]
      [] call.op = "insert_with_ttl" ->
           [entries |-> Ref_put(es, call.key, call.value, call.ttl, t),
            result |-> None]
      [] call.op = "get" -> Ref_get(es, call.key, t)
      [] call.op = "contains_key" -> Ref_contains_key(es, call.key, t)
      [] call.op = "update" -> Ref_update(es, call.key, call.value, t)
      [] call.op = "remove" -> Ref_remove(es, call.key)
      [] call.op = "clear" -> [entries |-> << >>, result |-> None]
      [] call.op = "size" ->
           [entries |-> es, result |-> Cardinality(DOMAIN es)]
Compared ==
    {"insert", "insert_with_ttl", "get", "contains_key", "update", "remove",
     "clear", "size"}
Returning == {"get", "contains_key", "update", "remove", "size"}
\* one step of the simulation: from equal indexes, the same call at the
\* same time leaves equal indexes and returns the same
C25_Step ==
    last'.op \in Compared =>
        LET r == Ref_call(cache.entries, last', now)
        IN  /\ cache'.entries = r.entries
            /\ last'.op \in Returning => last'.result = r.result
\* C25: the filter cannot be observed.  The cache and a reference ttl map
\* without filter, both empty at first and given the same insert,
\* insert_with_ttl, get, contains_key, update, remove, clear and size calls
\* at the same times, return the same at every step and keep the same index,
\* whatever keys the filter reports falsely.
C25_FilterIsTransparent == [][C25_Step]_vars
\* a lookup of a key that the filter reports although only the other key,
\* which collides with it, has been inserted since the last clear
C25_Witness ==
    /\ last.op \in {"get", "contains_key"}
    /\ ~last.seen.was_present
    /\ BloomContains(cache.bloom_filter, hasher[last.key])
    /\ cache.bloom_filter.size = 1
    /\ DOMAIN cache.entries = Keys \ {last.key}
    /\ IF last.op = "get" THEN last.result = None ELSE ~last.result

\* what C26 requires of a get of an entry created more than its ttl ago,
\* whatever its last access time
C26_Step ==
    \A key \in DOMAIN cache.entries :
        LET e == cache.entries[key]
        IN  (/\ last'.op = "get"
             /\ last'.key = key
             /\ e.ttl.some
             /\ now > e.created_at + e.ttl.v) =>
                /\ last'.result = None
                /\ key \notin DOMAIN cache'.entries
\* C26: the ttl does not slide.  For an entry put at time t with ttl d and
\* not put again, every get at a time later than t + d returns absent,
\* however many get or contains_key calls succeeded on it up to t + d.
C26_TtlIsNotSliding == [][C26_Step]_vars
\* a get has returned absent for an entry that had been accessed while it
\* was live, at a time when a ttl counted from that access has not elapsed
C26_Witness ==
    /\ last.op = "get"
    /\ last.entry.some
    /\ last.entry.v.ttl.some
    /\ last.entry.v.last_accessed_at > last.entry.v.created_at
    /\ last.entry.v.last_accessed_at
         <= last.entry.v.created_at + last.entry.v.ttl.v
    /\ now > last.entry.v.created_at + last.entry.v.ttl.v
    /\ now <= last.entry.v.last_accessed_at + last.entry.v.ttl.v
    /\ last.result = None
    /\ last.key \notin DOMAIN cache.entries

\* C27 (as claimed): in every state reached by insert, clear and merge, a
\* filter's is_empty() (size() = 0) is true exactly when none of its bits is
\* set, and a filter that reports is_empty() does not answer contains = true
\* for a key that was inserted into it or merged into it.
C27_EmptinessAgreesWithBits ==
    \A i \in FilterIds :
        filters[i].some =>
            LET f == filters[i].v
            IN  /\ BloomIsEmpty(f) <=> f.set_bits = {}
                /\ BloomIsEmpty(f) =>
                     \A key \in inserted[i] : ~BloomContains(f, hasher[key])

\* the times at which a later get is considered: from the call to past
\* the longest ttl
LaterTimes == now..(now + MaxTtl + 1)
\* what C28 requires of an insert or insert_with_ttl over a key that is in
\* the index (cache' is the cache the call leaves)
C28_Step ==
    \A key \in DOMAIN cache.entries :
        /\ (last'.op = "insert" /\ last'.key = key) =>
             /\ cache'.entries[key] =
                  [value |-> last'.value, ttl |-> None,
                   created_at |-> now, last_accessed_at |-> now]
             /\ CacheSize(cache') = CacheSize(cache)
             /\ \A t \in LaterTimes :
                  CacheGet(cache', key, t).result = Some(last'.value)
        /\ (last'.op = "insert_with_ttl" /\ last'.key = key) =>
             /\ cache'.entries[key] =
                  [value |-> last'.value, ttl |-> last'.ttl,
                   created_at |-> now, last_accessed_at |-> now]
             /\ CacheSize(cache') = CacheSize(cache)
             /\ \A t \in LaterTimes :
                  t <= now + last'.ttl.v =>
                      CacheGet(cache', key, t).result = Some(last'.value)
\* C28: an overwrite replaces the whole entry, its ttl and creation time
\* included.  insert over an entry that had a ttl, expired or not, leaves
\* an entry that no later get finds expired; insert_with_ttl with ttl d at
\* time t over any entry, even one expired and not yet evicted, leaves an
\* entry that get returns up to time t + d; size() is unchanged by both.
C28_OverwriteReplacesEntry == [][C28_Step]_vars
\* an insert_with_ttl has replaced an entry that was expired and still in
\* the index by one that is live, without changing size()
C28_Witness ==
    /\ last.op = "insert_with_ttl"
    /\ last.seen.was_expired
    /\ cache.entries[last.key].created_at = now
    /\ cache.entries[last.key].ttl = last.ttl
    /\ ~IsExpired(cache.entries[last.key], now)
    /\ CacheSize(cache) = last.seen.size_before

====
